---- MODULE Spec2Model ----
(***************************************************************************)
(* In-memory user store of api-demo-node: the users array, the four user  *)
(* controllers (createNewUser, getUserById, updateUser, deleteUser), the  *)
(* list route and the Joi validation in front of POST /user.              *)
(*                                                                         *)
(* A user object is a function from property names to values, so that an  *)
(* object with a property missing is a different value from one that has  *)
(* it.  Timestamps are integers in chronological order: the twenty seeded *)
(* ISO strings are 1..20, the process starts at StartClock.                *)
(*                                                                         *)
(* Spec is the store under direct calls of the controllers and requests   *)
(* to the routes; SpecEdge is the controllers on edge-case ids, from the  *)
(* seeded or the empty store; SpecValidate is validateRequest on its own. *)
(* In last, ref is the place in users of the object a controller returned *)
(* (0 when the caller holds no stored object) and next counts the calls   *)
(* of next() by the validator.                                             *)
(***************************************************************************)
EXTENDS Integers, Sequences, FiniteSets, TLC

\* ------------------------------------------------------------------ bounds
MaxTicks == 1      \* how far the clock advances past the process start
MaxOps   == 3      \* number of calls / requests in one behaviour
MaxEntries == 4    \* number of properties of a validated body or params object
MaxReqs  == 3      \* number of HTTP requests in flight together

\* --------------------------------------------------------------- constants
StartClock == 21   \* first instant after the latest seeded timestamp
MaxClock   == StartClock + MaxTicks

OK          == 200
CREATED     == 201
BAD_REQUEST == 400
INTERNAL_SERVER_ERROR == 500

UserFields == {"id", "firstName", "lastName", "email", "phone", "createdAt", "updatedAt"}

User(id, firstName, lastName, email, phone, createdAt, updatedAt) ==
  [id |-> id, firstName |-> firstName, lastName |-> lastName, email |-> email,
   phone |-> phone, createdAt |-> createdAt, updatedAt |-> updatedAt]

\* users-model.ts: the ten seeded records, in array order
SeedUsers ==
  << User("4b1335f4-788b-4e8d-9ed5-04b99ce430a4", "Emma", "Johnson", "emma.johnson@email.com", "+1-555-555-0123", 1, 12),
     User("c27d2af0-b713-4092-a73b-024d1313233f", "Liam", "Williams", "liam.williams@email.com", "+1-555-555-0456", 3, 15),
     User("02ad7f8d-9a4d-4f00-b101-7744851880a2", "Sophia", "Brown", "sophia.brown@email.com", "+1-555-555-0789", 4, 9),
     User("a3fdef38-b254-4139-b93c-7e576baf9536", "Noah", "Davis", "noah.davis@email.com", "+1-555-555-0321", 5, 19),
     User("872afdbd-639e-495f-94f0-c008799f7914", "Olivia", "Miller", "olivia.miller@email.com", "+1-555-555-0654", 6, 13),
     User("3415a2d7-8f54-4e17-8966-55d1b0219ee4", "Ethan", "Wilson", "ethan.wilson@email.com", "+1-555-555-0987", 2, 8),
     User("a81f014a-efea-40d1-9a53-ff7f329b653c", "Ava", "Moore", "ava.moore@email.com", "+1-555-555-0147", 7, 16),
     User("3d4c5f82-909d-474c-95ee-0ab44fec640e", "Mason", "Taylor", "mason.taylor@email.com", "+1-555-555-0258", 10, 20),
     User("8b5fac60-b246-4601-81e7-a517ceea1c6d", "Isabella", "Anderson", "isabella.anderson@email.com", "+1-555-555-0369", 11, 14),
     User("798ada0b-a752-449c-9138-551a4850fb03", "William", "Thomas", "william.thomas@email.com", "+1-555-555-0741", 17, 18) >>

\* the empty object {}
EmptyObject == << >>

VARIABLES
  users,   \* users-model.ts: the exported users array
  now,     \* the system clock that new Date() reads
  last,    \* the latest call or request: what was asked and what came back
  reqs     \* the HTTP requests in flight together, each with its progress

vars == << users, now, last, reqs >>

\* ------------------------------------------------------ inputs of the model
SeedId(k) == SeedUsers[k].id
MockUUID  == "123e4567-e89b-12d3-a456-426614174000"
OtherUUID == "999e4567-e89b-12d3-a456-426614174999"

\* crypto.randomUUID(): a random version-4 UUID; nothing in the code checks
\* the value against the ids already stored
UUIDs == {MockUUID, OtherUUID}

\* ids passed to getUserById / updateUser / deleteUser
OpIds == {SeedId(2), MockUUID}

\* an id argument that is not a string: null and undefined are strictly
\* unequal (===) to every string, as these two tokens are to every id used here
NullId      == "<null>"
UndefinedId == "<undefined>"

\* SeedId(2) in capital letters
UpperSeedId == "C27D2AF0-B713-4092-A73B-024D1313233F"

\* the ids of OpIds and the edge cases of the controller tests
EdgeIds == OpIds \cup {"", NullId, UndefinedId, UpperSeedId}

\* objects passed to createNewUser(user: User); a caller-supplied timestamp is
\* 0 (before every seeded one) or MaxClock + 1 (after every clock value)
CreateArgs ==
  { User(SeedId(2), "Jane", "Smith", "jane.smith@example.com", "+1-555-987-6543", 0, MaxClock + 1) }

\* objects passed to updateUser(id, user: User)
UpdateArgs ==
  { EmptyObject,
    [firstName |-> "Johnny", email |-> "johnny.doe@example.com"],
    [firstName |-> "NewFirst", lastName |-> "NewLast", email |-> "new.email@example.com", phone |-> "+1-555-000-0000"],
    [id |-> SeedId(1), createdAt |-> MaxClock + 1],
    [lastName |-> "Updated", updatedAt |-> 0] }

\* --------------------------------------------------------------- controllers
\* String.prototype.toLowerCase on the ids used here
toLowerCase(id) == IF id = UpperSeedId THEN SeedId(2) ELSE id

\* the ids compared without regard to letter case
findIndexIgnoreCase(us, id) ==
  IF \E i \in 1..Len(us) : toLowerCase(us[i].id) = toLowerCase(id)
    THEN CHOOSE i \in 1..Len(us) :
           /\ toLowerCase(us[i].id) = toLowerCase(id)
           /\ \A j \in 1..(i-1) : toLowerCase(us[j].id) # toLowerCase(id)
    ELSE -1

\* Array.prototype.findIndex with (user) => user.id === id; positions are
\* 1-based here, -1 when nothing matches
findIndex(us, id) ==
  IF \E i \in 1..Len(us) : us[i].id = id
    THEN CHOOSE i \in 1..Len(us) : us[i].id = id /\ \A j \in 1..(i-1) : us[j].id # id
    ELSE -1

\* { ...a, ...b }: the properties of b win
spread(a, b) == b @@ a

\* { id, createdAt, updatedAt, ...user }: the properties of the caller win
newUserCallerWins(user, uuid, t1, t2) ==
  spread([id |-> uuid, createdAt |-> t1, updatedAt |-> t2], user)

\* create-new-user.ts: the object literal; createdAt and updatedAt come from
\* two separate new Date() calls
newUser(user, uuid, t1, t2) ==
  spread(user, [id |-> uuid, createdAt |-> t1, updatedAt |-> t2])

\* users.unshift(newUser) in place of push
unshift(us, u) == << u >> \o us

\* users.push(newUser)
push(us, u) == Append(us, u)

createNewUser(us, user, uuid, t1, t2) ==
  LET nu == newUser(user, uuid, t1, t2)
  IN  [users |-> push(us, nu), kind |-> "ok", value |-> nu, ref |-> Len(us) + 1]

\* return { ...user }: the caller gets a copy of the stored record
getUserByIdCopy(us, id) ==
  LET i == findIndex(us, id)
  IN  IF i = -1
        THEN [users |-> us, kind |-> "NotFound", value |-> "User not found", ref |-> 0]
        ELSE [users |-> us, kind |-> "ok", value |-> us[i], ref |-> 0]

\* users.find without the throw: undefined comes back as a result
getUserByIdNoThrow(us, id) ==
  LET i == findIndex(us, id)
  IN  IF i = -1
        THEN [users |-> us, kind |-> "ok", value |-> UndefinedId, ref |-> 0]
        ELSE [users |-> us, kind |-> "ok", value |-> us[i], ref |-> i]

getUserById(us, id) ==
  LET i == findIndex(us, id)
  IN  IF i = -1
        THEN [users |-> us, kind |-> "NotFound", value |-> "User not found", ref |-> 0]
        ELSE [users |-> us, kind |-> "ok", value |-> us[i], ref |-> i]

\* { ...user, ...users[userIndex], updatedAt }: the stored properties win
updatedUserStoredWins(existing, user, t) ==
  spread(spread(user, existing), [updatedAt |-> t])

\* { ...users[userIndex], updatedAt, ...user }: a caller-supplied updatedAt wins
updatedUserCallerStamp(existing, user, t) ==
  spread(spread(existing, [updatedAt |-> t]), user)

\* update-user.ts: { ...users[userIndex], ...user, updatedAt: new Date().toISOString() }
updatedUser(existing, user, t) ==
  spread(spread(existing, user), [updatedAt |-> t])

\* the updated record is moved to the end instead of replacing in place
assignAtEnd(us, userIndex, u) ==
  SubSeq(us, 1, userIndex - 1) \o SubSeq(us, userIndex + 1, Len(us)) \o << u >>

\* users[userIndex] = updatedUser
assignAt(us, userIndex, u) == [us EXCEPT ![userIndex] = u]

updateUser(us, id, user, t) ==
  LET userIndex == findIndex(us, id)
  IN  IF userIndex = -1
        THEN [users |-> us, kind |-> "NotFound", value |-> "User not found", ref |-> 0]
        ELSE LET uu == updatedUser(us[userIndex], user, t)
             IN  [users |-> assignAt(us, userIndex, uu), kind |-> "ok", value |-> uu, ref |-> userIndex]

\* users.splice(userIndex): without a delete count the tail goes too
spliceTail(us, userIndex) == SubSeq(us, 1, userIndex - 1)

\* users.splice(userIndex, 1)
splice(us, userIndex) ==
  [j \in 1..(Len(us) - 1) |-> IF j < userIndex THEN us[j] ELSE us[j + 1]]

\* the splice ahead of the check: splice(-1, 1) takes the last element away
deleteUserCheckLate(us, id) ==
  LET userIndex == findIndex(us, id)
  IN  IF userIndex = -1
        THEN [users |-> SubSeq(us, 1, Len(us) - 1), kind |-> "NotFound", value |-> "User not found", ref |-> 0]
        ELSE [users |-> splice(us, userIndex), kind |-> "ok", value |-> us[userIndex], ref |-> 0]

deleteUser(us, id) ==
  LET userIndex == findIndex(us, id)
  IN  IF userIndex = -1
        THEN [users |-> us, kind |-> "NotFound", value |-> "User not found", ref |-> 0]
        ELSE [users |-> splice(us, userIndex), kind |-> "ok", value |-> us[userIndex], ref |-> 0]

\* ---------------------------------------------------------------- validation
\* shared.schema.ts: the verdict of Joi.string().email() and of the phone
\* pattern /^(\+[1-9]\d{0,3}[-\s]?)?[\d-\s]{7,15}$/ on the strings used here
emailSchema(v) == v \in {"alice.johnson@example.com", "johnny.doe@example.com"}
phoneSchema(v) == v \in {"+1-555-111-2222", "+1-555-999-8888"}

\* user.schema.ts: Joi.object keys in declaration order
\* Joi.string().uuid() on the ids used here (capital letters pass as well)
idSchema(v) == v \in {SeedUsers[k].id : k \in 1..Len(SeedUsers)} \cup UUIDs \cup {UpperSeedId}

userBaseSchema ==
  << [key |-> "firstName", required |-> FALSE, rule |-> "string"],
     [key |-> "lastName",  required |-> FALSE, rule |-> "string"],
     [key |-> "email",     required |-> FALSE, rule |-> "email"],
     [key |-> "phone",     required |-> FALSE, rule |-> "phone"] >>

\* userBaseSchema.fork(['firstName', 'lastName'], (schema) => schema.required())
fork(schema, keys) ==
  [i \in 1..Len(schema) |->
     IF schema[i].key \in keys THEN [schema[i] EXCEPT !.required = TRUE] ELSE schema[i]]

userCreateSchema == fork(userBaseSchema, {"firstName", "lastName"})

\* the update schema with a required id of its own
userUpdateSchemaWithId == userBaseSchema \o << [key |-> "id", required |-> TRUE, rule |-> "uuid"] >>

userUpdateSchema == userBaseSchema

\* Number(v) for the query strings used here; any other string is no number
NumberOf == ("0" :> 0) @@ ("2" :> 2) @@ ("20" :> 20) @@ ("150" :> 150)

\* querySchema of the validator's tests: Joi.number() with min, max and default
querySchema ==
  << [key |-> "page", required |-> FALSE, rule |-> "number", min |-> 1, default |-> 1],
     [key |-> "limit", required |-> FALSE, rule |-> "number", min |-> 1, max |-> 100, default |-> 10],
     [key |-> "search", required |-> FALSE, rule |-> "string"] >>

\* Joi.object({ id: idSchema }), idSchema being required
userIdSchema == << [key |-> "id", required |-> TRUE, rule |-> "uuid"] >>

\* the error Joi reports for one key of an object, << >> when the key passes
keyErrors(d, raw) ==
  IF d.key \notin DOMAIN raw
    THEN IF d.required
           THEN << [path |-> d.key, message |-> d.key \o " is required"] >>
           ELSE << >>
  ELSE IF d.rule = "number"
    THEN IF raw[d.key] \notin DOMAIN NumberOf
           THEN << [path |-> d.key, message |-> d.key \o " must be a number"] >>
         ELSE IF NumberOf[raw[d.key]] < d.min
           THEN << [path |-> d.key,
                    message |-> d.key \o " must be greater than or equal to " \o ToString(d.min)] >>
         ELSE IF "max" \in DOMAIN d /\ NumberOf[raw[d.key]] > d.max
           THEN << [path |-> d.key,
                    message |-> d.key \o " must be less than or equal to " \o ToString(d.max)] >>
         ELSE << >>
  ELSE IF raw[d.key] = ""
    THEN << [path |-> d.key, message |-> d.key \o " is not allowed to be empty"] >>
  ELSE IF d.rule = "email" /\ ~emailSchema(raw[d.key])
    THEN << [path |-> d.key, message |-> "Invalid email address"] >>
  ELSE IF d.rule = "phone" /\ ~phoneSchema(raw[d.key])
    THEN << [path |-> d.key, message |-> "Invalid phone number"] >>
  ELSE IF d.rule = "uuid" /\ ~idSchema(raw[d.key])
    THEN << [path |-> d.key, message |-> d.key \o " must be a valid GUID"] >>
  ELSE << >>

RECURSIVE collectErrorsAbortEarly(_, _, _)
\* abortEarly: true: the error of the first key that fails
collectErrorsAbortEarly(schema, raw, i) ==
  IF i > Len(schema) THEN << >>
  ELSE IF keyErrors(schema[i], raw) # << >> THEN keyErrors(schema[i], raw)
  ELSE collectErrorsAbortEarly(schema, raw, i + 1)

RECURSIVE collectErrors(_, _, _)
\* abortEarly: false: the errors of every key, keys in declaration order
collectErrors(schema, raw, i) ==
  IF i > Len(schema) THEN << >>
  ELSE keyErrors(schema[i], raw) \o collectErrors(schema, raw, i + 1)

\* stripUnknown: false with allowUnknown: every key of the input stays
keepUnknown(schema, raw) == raw

\* stripUnknown: true: only the declared keys stay in the value
stripUnknown(schema, raw) ==
  LET declared == {schema[i].key : i \in 1..Len(schema)}
  IN  [k \in (DOMAIN raw) \cap declared |-> raw[k]]

\* schema.validate(req[property], { abortEarly: false, stripUnknown: true })
\* the value without conversion and without defaults
sanitizeAsSent(schema, raw) == stripUnknown(schema, raw)

\* the value Joi returns for an input that passes: unknown keys stripped,
\* numeric strings of number keys converted, defaults in for absent keys
sanitize(schema, raw) ==
  LET kept     == stripUnknown(schema, raw)
      numbers  == {schema[i].key : i \in {j \in 1..Len(schema) : schema[j].rule = "number"}}
      defaults == {i \in 1..Len(schema) : "default" \in DOMAIN schema[i] /\ schema[i].key \notin DOMAIN raw}
  IN  [k \in (DOMAIN kept) \cup {schema[i].key : i \in defaults} |->
         IF k \in DOMAIN kept
           THEN IF k \in numbers /\ kept[k] \in DOMAIN NumberOf THEN NumberOf[kept[k]] ELSE kept[k]
           ELSE schema[CHOOSE i \in defaults : schema[i].key = k].default]

validate(schema, raw) ==
  [error |-> collectErrors(schema, raw, 1), value |-> sanitize(schema, raw)]

\* req[property] as the validator sees it: the object whose properties are
\* the entries (distinct keys); the validator looks properties up by key
fromEntries(entries) ==
  [k \in {entries[i].key : i \in 1..Len(entries)} |->
     entries[CHOOSE i \in 1..Len(entries) : entries[i].key = k].value]

\* the declaration of a key in a schema
declaration(schema, key) == schema[CHOOSE i \in 1..Len(schema) : schema[i].key = key]

RECURSIVE errorsOfEntries(_, _, _)
\* the errors of the properties of the input, in the order of the input
errorsOfEntries(schema, entries, j) ==
  IF j > Len(entries) THEN << >>
  ELSE (IF \E i \in 1..Len(schema) : schema[i].key = entries[j].key
          THEN keyErrors(declaration(schema, entries[j].key), fromEntries(entries))
          ELSE << >>)
       \o errorsOfEntries(schema, entries, j + 1)

\* a validator that walks the properties of the input and then reports the
\* required keys that are missing
validateRequestInputOrder(schema, entries) ==
  LET raw     == fromEntries(entries)
      missing == [i \in 1..Len(schema) |->
                    IF schema[i].key \in DOMAIN raw THEN [schema[i] EXCEPT !.required = FALSE]
                    ELSE schema[i]]
      details == errorsOfEntries(schema, entries, 1) \o collectErrors(missing, EmptyObject, 1)
  IN  IF details = << >>
        THEN [kind |-> "ok", status |-> 0, value |-> stripUnknown(schema, raw), details |-> << >>, next |-> 1]
        ELSE [kind |-> "ValidationError", status |-> BAD_REQUEST, value |-> "Validation error",
              details |-> details, next |-> 0]

\* validateRequest(schema, property)(req, res, next): req[property] becomes the
\* sanitized value and next() is called, or the 400 answer carries the details
validateRequest(schema, entries) ==
  LET v == validate(schema, fromEntries(entries))
  IN  IF v.error = << >>
        THEN [kind |-> "ok", status |-> 0, value |-> v.value, details |-> << >>, next |-> 1]
        ELSE [kind |-> "ValidationError", status |-> BAD_REQUEST, value |-> "Validation error",
              details |-> v.error, next |-> 0]

\* properties a request body can have
BodyEntries ==
  { [key |-> "firstName", value |-> "Alice"],
    [key |-> "firstName", value |-> ""],
    [key |-> "lastName", value |-> "Johnson"],
    [key |-> "email", value |-> "alice.johnson@example.com"],
    [key |-> "email", value |-> "invalid-email"],
    [key |-> "phone", value |-> "+1-555-111-2222"],
    [key |-> "phone", value |-> "invalid-phone"],
    [key |-> "unknownProp", value |-> "should be removed"] }

\* the middleware on any req[property]: Joi passes undefined without looking
\* at the keys (the object schema is not required) and gives undefined as
\* value; null is not of type object, one error with an empty path
middleware(schema, input) ==
  IF input.type = "undefined"
    THEN [kind |-> "ok", status |-> 0, value |-> UndefinedId, details |-> << >>, next |-> 1]
  ELSE IF input.type = "null"
    THEN [kind |-> "ValidationError", status |-> BAD_REQUEST, value |-> "Validation error",
          details |-> << [path |-> "", message |-> "value must be of type object"] >>, next |-> 0]
  ELSE validateRequest(schema, input.entries)

\* properties req.query can have
QueryEntries ==
  { [key |-> "page", value |-> "2"],
    [key |-> "page", value |-> "0"],
    [key |-> "page", value |-> "abc"],
    [key |-> "limit", value |-> "20"],
    [key |-> "limit", value |-> "150"],
    [key |-> "search", value |-> "test"],
    [key |-> "unknownProp", value |-> "should be removed"] }

\* properties req.params can have
ParamEntries ==
  { [key |-> "id", value |-> MockUUID],
    [key |-> "id", value |-> "invalid-uuid"],
    [key |-> "unknownProp", value |-> "should be removed"] }

\* the objects of at most MaxEntries properties, as the sequences of their
\* properties in insertion order
Objects(entries) ==
  { o \in UNION { [1..k -> entries] : k \in 0..MaxEntries } :
      \A i, j \in 1..Len(o) : o[i].key = o[j].key => i = j }

\* bodies sent to POST /user
CreateBodies ==
  { [firstName |-> "Alice", lastName |-> "Johnson", email |-> "alice.johnson@example.com", phone |-> "+1-555-111-2222"],
    [firstName |-> "Alice", lastName |-> "Johnson"],
    [firstName |-> "Alice", email |-> "alice.johnson@example.com", phone |-> "+1-555-111-2222"],
    [firstName |-> "Alice", lastName |-> "Johnson", email |-> "invalid-email", phone |-> "invalid-phone"],
    [firstName |-> "Alice", lastName |-> "Johnson", email |-> "alice.johnson@example.com", phone |-> "+1-555-111-2222",
     unknownProp |-> "should be removed", id |-> SeedId(1)] }

\* ------------------------------------------------------------------- actions
Init ==
  /\ users = SeedUsers
  /\ now = StartClock
  /\ last = [n |-> 0, op |-> "none", via |-> "none", id |-> "", arg |-> EmptyObject,
             kind |-> "none", value |-> EmptyObject, status |-> 0, details |-> << >>,
             ref |-> 0, next |-> 0]
  /\ reqs = << >>

\* what a direct call of a controller leaves in last
Called(op, id, arg, r) ==
  [n |-> last.n + 1, op |-> op, via |-> "call", id |-> id, arg |-> arg,
   kind |-> r.kind, value |-> r.value, status |-> 0, details |-> << >>,
   ref |-> r.ref, next |-> 0]

\* time passes between two calls
Tick ==
  /\ now < MaxClock
  /\ now' = now + 1
  /\ UNCHANGED << users, last >>
  /\ UNCHANGED reqs

\* createNewUser(user); the clock may move on between the two new Date() calls
CallCreateNewUser ==
  /\ last.n < MaxOps
  /\ \E user \in CreateArgs, uuid \in UUIDs, t2 \in now..MaxClock :
       /\ t2 <= now + 1
       /\ LET r == createNewUser(users, user, uuid, now, t2)
          IN  /\ users' = r.users
              /\ last' = Called("Create", "", user, r)
       /\ now' = t2
  /\ UNCHANGED reqs

CallGetUserById ==
  /\ last.n < MaxOps
  /\ \E id \in OpIds :
       LET r == getUserById(users, id)
       IN  /\ users' = r.users
           /\ last' = Called("Read", id, EmptyObject, r)
  /\ UNCHANGED now
  /\ UNCHANGED reqs

CallUpdateUser ==
  /\ last.n < MaxOps
  /\ \E id \in OpIds, user \in UpdateArgs :
       LET r == updateUser(users, id, user, now)
       IN  /\ users' = r.users
           /\ last' = Called("Update", id, user, r)
  /\ UNCHANGED now
  /\ UNCHANGED reqs

CallDeleteUser ==
  /\ last.n < MaxOps
  /\ \E id \in OpIds :
       LET r == deleteUser(users, id)
       IN  /\ users' = r.users
           /\ last' = Called("Delete", id, EmptyObject, r)
  /\ UNCHANGED now
  /\ UNCHANGED reqs

\* res.send(users.reverse()): reverses the array in place and sends it
GetUsersReversed ==
  /\ last.n < MaxOps
  /\ users' = [i \in 1..Len(users) |-> users[Len(users) + 1 - i]]
  /\ last' = [n |-> last.n + 1, op |-> "List", via |-> "http", id |-> "", arg |-> EmptyObject,
              kind |-> "ok", value |-> users', status |-> 200, details |-> << >>,
              ref |-> 0, next |-> 0]
  /\ UNCHANGED now
  /\ UNCHANGED reqs

\* routes/users.ts: GET /users sends the users array
GetUsers ==
  /\ last.n < MaxOps
  /\ last' = [n |-> last.n + 1, op |-> "List", via |-> "http", id |-> "", arg |-> EmptyObject,
              kind |-> "ok", value |-> users, status |-> 200, details |-> << >>,
              ref |-> 0, next |-> 0]
  /\ UNCHANGED << users, now >>
  /\ UNCHANGED reqs

\* routes/user.ts: router.post('/', validateRequest(userCreateSchema, 'body'), ...)
\* validateRequest without the return in front of res.status(400): the 400 is
\* sent, then next() runs the handler on the body as it came
PostUserNoReturn ==
  /\ last.n < MaxOps
  /\ \E body \in CreateBodies :
       LET v == validate(userCreateSchema, body)
       IN  IF v.error # << >>
             THEN /\ last' = [n |-> last.n + 1, op |-> "Create", via |-> "http", id |-> "", arg |-> body,
                              kind |-> "ValidationError", value |-> "Validation error",
                              status |-> BAD_REQUEST, details |-> v.error,
                              ref |-> 0, next |-> 1]
                  /\ users' = createNewUser(users, body, MockUUID, now, now).users
                  /\ UNCHANGED now
             ELSE \E uuid \in UUIDs, t2 \in now..MaxClock :
                    /\ t2 <= now + 1
                    /\ LET r == createNewUser(users, v.value, uuid, now, t2)
                       IN  /\ users' = r.users
                           /\ last' = [n |-> last.n + 1, op |-> "Create", via |-> "http", id |-> "", arg |-> body,
                                       kind |-> r.kind, value |-> r.value,
                                       status |-> CREATED, details |-> << >>,
                                       ref |-> 0, next |-> 1]
                    /\ now' = t2
  /\ UNCHANGED reqs

\* validateRequest answers 400 itself when Joi reports an error; otherwise it
\* puts the sanitized value in req.body, calls next() and the handler calls
\* createNewUser; res.send serializes the record, the client gets a copy
PostUser ==
  /\ last.n < MaxOps
  /\ \E body \in CreateBodies :
       LET v == validate(userCreateSchema, body)
       IN  IF v.error # << >>
             THEN /\ last' = [n |-> last.n + 1, op |-> "Create", via |-> "http", id |-> "", arg |-> body,
                              kind |-> "ValidationError", value |-> "Validation error",
                              status |-> BAD_REQUEST, details |-> v.error,
                              ref |-> 0, next |-> 0]
                  /\ UNCHANGED << users, now >>
             ELSE \E uuid \in UUIDs, t2 \in now..MaxClock :
                    /\ t2 <= now + 1
                    /\ LET r == createNewUser(users, v.value, uuid, now, t2)
                       IN  /\ users' = r.users
                           /\ last' = [n |-> last.n + 1, op |-> "Create", via |-> "http", id |-> "", arg |-> body,
                                       kind |-> r.kind, value |-> r.value,
                                       status |-> CREATED, details |-> << >>,
                                       ref |-> 0, next |-> 1]
                    /\ now' = t2
  /\ UNCHANGED reqs

\* the caller assigns to a property of the record the last operation gave it:
\* a direct caller of a controller holds the object the controller returned
\* (users[last.ref] when last.ref # 0), an HTTP client holds parsed JSON
CallerWrites ==
  /\ last.n < MaxOps
  /\ last.kind = "ok"
  /\ last.op \in {"Create", "Read", "Update", "Delete"}
  /\ LET written == spread(last.value, [firstName |-> "Changed"])
     IN  /\ users' = IF last.ref # 0 THEN assignAt(users, last.ref, written) ELSE users
         /\ last' = [last EXCEPT !.n = @ + 1, !.op = "Write", !.value = written]
  /\ UNCHANGED now
  /\ UNCHANGED reqs

Next ==
  \/ Tick
  \/ CallCreateNewUser
  \/ CallGetUserById
  \/ CallUpdateUser
  \/ CallDeleteUser
  \/ GetUsers
  \/ PostUser
  \/ CallerWrites

Spec == Init /\ [][Next]_vars

\* ------------------------------------------- the controllers on edge-case ids
\* the store as constructed, or after every record has been deleted
InitEdge ==
  /\ users \in {SeedUsers, << >>}
  /\ now = StartClock
  /\ last = [n |-> 0, op |-> "none", via |-> "none", id |-> "", arg |-> EmptyObject,
             kind |-> "none", value |-> EmptyObject, status |-> 0, details |-> << >>,
             ref |-> 0, next |-> 0]
  /\ reqs = << >>

EdgeGetUserById ==
  /\ last.n < MaxOps
  /\ \E id \in EdgeIds :
       LET r == getUserById(users, id)
       IN  /\ users' = r.users
           /\ last' = Called("Read", id, EmptyObject, r)
  /\ UNCHANGED now
  /\ UNCHANGED reqs

\* an id of OpIds with every object of UpdateArgs, an edge-case id with the
\* object the tests pass
EdgeUpdateUser ==
  /\ last.n < MaxOps
  /\ \E id \in EdgeIds, user \in UpdateArgs \cup {[firstName |-> "Test"]} :
       /\ (id \in OpIds) = (user \in UpdateArgs)
       /\ LET r == updateUser(users, id, user, now)
          IN  /\ users' = r.users
              /\ last' = Called("Update", id, user, r)
  /\ UNCHANGED now
  /\ UNCHANGED reqs

EdgeDeleteUser ==
  /\ last.n < MaxOps
  /\ \E id \in EdgeIds :
       LET r == deleteUser(users, id)
       IN  /\ users' = r.users
           /\ last' = Called("Delete", id, EmptyObject, r)
  /\ UNCHANGED now
  /\ UNCHANGED reqs

NextEdge ==
  \/ Tick
  \/ CallCreateNewUser
  \/ EdgeGetUserById
  \/ EdgeUpdateUser
  \/ EdgeDeleteUser

SpecEdge == InitEdge /\ [][NextEdge]_vars

\* ------------------------------------------------- the validator on its own
\* what req[property] can be: an object, null, or undefined
Inputs(entries) ==
  { [type |-> "object", entries |-> o] : o \in Objects(entries) }
    \cup { [type |-> t, entries |-> << >>] : t \in {"null", "undefined"} }

\* a request waits at a validateRequest middleware of a route
InitValidate ==
  /\ users = SeedUsers
  /\ now = StartClock
  /\ \E schema \in {userCreateSchema, userUpdateSchema, userIdSchema, querySchema} :
       \E input \in Inputs(IF schema = userIdSchema THEN ParamEntries
                           ELSE IF schema = querySchema THEN QueryEntries
                           ELSE BodyEntries) :
         last = [n |-> 0, op |-> "Validate", via |-> "http", id |-> "",
                 arg |-> [schema |-> schema, type |-> input.type, entries |-> input.entries],
                 kind |-> "pending", value |-> EmptyObject, status |-> 0, details |-> << >>,
                 ref |-> 0, next |-> 0]
  /\ reqs = << >>

ValidateRequest ==
  /\ last.kind = "pending"
  /\ LET r == middleware(last.arg.schema, last.arg)
     IN  last' = [last EXCEPT !.n = @ + 1, !.kind = r.kind, !.status = r.status, !.value = r.value,
                              !.details = r.details, !.next = r.next]
  /\ UNCHANGED << users, now >>
  /\ UNCHANGED reqs

NextValidate == ValidateRequest

SpecValidate == InitValidate /\ [][NextValidate]_vars

\* ------------------------------------------- requests in flight together
\* the elements of a sequence
Range(seq) == {seq[i] : i \in 1..Len(seq)}

\* a request as it arrives: pc is where it stands in the chain of its route,
\* ran the middlewares and handlers that have run for it, next the calls of
\* next(), sent the responses written, data the sanitized req.body,
\* userIndex what findIndex gave (0: not called yet), uuid, t1 and t2 what
\* randomUUID() and new Date() gave
Request(method, id, body) ==
  [method |-> method, id |-> id, body |-> body, pc |-> "received", ran |-> << >>, next |-> 0,
   sent |-> << >>, data |-> EmptyObject, userIndex |-> 0, uuid |-> "", t1 |-> 0, t2 |-> 0]

\* a request without a body, and one with a JSON object as body
NoBody == [type |-> "undefined", entries |-> << >>]
JsonBody(entries) == [type |-> "object", entries |-> entries]

\* the requests of the route tests
RouteRequests ==
  << Request("GET", OtherUUID, NoBody),
     Request("GET", SeedId(2), NoBody),
     Request("PATCH", SeedId(2), JsonBody(<< >>)),
     Request("PATCH", OtherUUID, JsonBody(<< [key |-> "firstName", value |-> "Johnny"] >>)),
     Request("PATCH", "invalid-uuid", JsonBody(<< [key |-> "email", value |-> "invalid-email"] >>)),
     Request("PATCH", SeedId(2), JsonBody(<< [key |-> "email", value |-> "invalid-email"] >>)),
     Request("DELETE", SeedId(2), NoBody),
     Request("DELETE", OtherUUID, NoBody),
     Request("POST", "", JsonBody(<< [key |-> "firstName", value |-> "Alice"],
                                     [key |-> "lastName", value |-> "Johnson"] >>)),
     Request("LIST", "", NoBody) >>

\* what randomUUID() gives a POST: a new value or, as nothing in
\* createNewUser rules it out, the id of a stored record
RouteUUIDs == {MockUUID, SeedId(2)}

\* the choices of up to MaxReqs requests (any request any number of times)
Batches ==
  { b \in UNION { [1..k -> 1..Len(RouteRequests)] : k \in 1..MaxReqs } :
      \A i, j \in 1..Len(b) : i < j => b[i] <= b[j] }

\* the requests have arrived, none has been passed to its route yet
InitRoutes ==
  /\ users = SeedUsers
  /\ now = StartClock
  /\ last = [n |-> 0, op |-> "none", via |-> "none", id |-> "", arg |-> EmptyObject,
             kind |-> "none", value |-> EmptyObject, status |-> 0, details |-> << >>,
             ref |-> 0, next |-> 0]
  /\ \E b \in Batches : reqs = [i \in 1..Len(b) |-> RouteRequests[b[i]]]

\* a request is handled whenever the call stack is not empty
NeverIdle(rs) == TRUE

\* the call stack is empty: no request is between the start of its chain and
\* its response (middlewares and handlers are synchronous functions, next()
\* calls the next one directly)
Idle(rs) == \A i \in 1..Len(rs) : rs[i].pc \in {"received", "done"}

\* res.status(status).send(value) / .json({..., details})
Response(status, value, details) == [status |-> status, value |-> value, details |-> details]

\* the chain of PATCH with the body validator in front of the params validator
FirstOfChainBodyFirst(method) ==
  IF method = "LIST" THEN "handler"
  ELSE IF method \in {"POST", "PATCH"} THEN "body"
  ELSE "params"

\* the first function of the chain of a route
FirstOfChain(method) ==
  IF method = "LIST" THEN "handler"
  ELSE IF method = "POST" THEN "body"
  ELSE "params"

\* express passes a request that has arrived to the chain of its route
Dispatch ==
  /\ \E i \in 1..Len(reqs) :
       /\ reqs[i].pc = "received"
       /\ Idle(reqs)
       /\ reqs' = [reqs EXCEPT ![i].pc = FirstOfChain(reqs[i].method)]
  /\ UNCHANGED << users, now, last >>

\* validateRequest(userIdSchema, 'params'); next() calls the function that
\* follows in the chain of the route
ValidateParams ==
  /\ \E i \in 1..Len(reqs) :
       /\ reqs[i].pc = "params"
       /\ LET r == middleware(userIdSchema, JsonBody(<< [key |-> "id", value |-> reqs[i].id] >>))
          IN  reqs' = [reqs EXCEPT ![i] =
                IF r.kind = "ok"
                  THEN [@ EXCEPT !.pc = IF reqs[i].method = "PATCH" /\ "body" \notin Range(reqs[i].ran)
                                          THEN "body" ELSE "handler",
                                 !.ran = Append(@, "params"), !.next = @ + r.next]
                  ELSE [@ EXCEPT !.pc = "done", !.ran = Append(@, "params"),
                                 !.sent = Append(@, Response(r.status, r.value, r.details))]]
  /\ UNCHANGED << users, now, last >>

\* validateRequest(userCreateSchema, 'body') of POST,
\* validateRequest(userUpdateSchema, 'body') of PATCH
ValidateBody ==
  /\ \E i \in 1..Len(reqs) :
       /\ reqs[i].pc = "body"
       /\ LET schema == IF reqs[i].method = "POST" THEN userCreateSchema ELSE userUpdateSchema
              r      == middleware(schema, reqs[i].body)
          IN  reqs' = [reqs EXCEPT ![i] =
                IF r.kind = "ok"
                  THEN [@ EXCEPT !.pc = IF reqs[i].method = "PATCH" /\ "params" \notin Range(reqs[i].ran)
                                          THEN "params" ELSE "handler",
                                 !.ran = Append(@, "body"), !.next = @ + r.next, !.data = r.value]
                  ELSE [@ EXCEPT !.pc = "done", !.ran = Append(@, "body"),
                                 !.sent = Append(@, Response(r.status, r.value, r.details))]]
  /\ UNCHANGED << users, now, last >>

\* the handlers of GET, PATCH and DELETE /user/:id up to the check of the
\* index: getUserById answers or throws, updateUser and deleteUser go on to
\* their write or throw
Lookup ==
  /\ \E i \in 1..Len(reqs) :
       /\ reqs[i].pc = "handler"
       /\ reqs[i].method \in {"GET", "PATCH", "DELETE"}
       /\ LET userIndex == findIndex(users, reqs[i].id)
          IN  reqs' = [reqs EXCEPT ![i] =
                IF userIndex = -1
                  THEN [@ EXCEPT !.pc = "thrown", !.ran = Append(@, "handler"), !.userIndex = userIndex]
                ELSE IF reqs[i].method = "GET"
                  THEN [@ EXCEPT !.pc = "done", !.ran = Append(@, "handler"), !.userIndex = userIndex,
                                 !.sent = Append(@, Response(OK, users[userIndex], << >>))]
                ELSE [@ EXCEPT !.pc = "write", !.ran = Append(@, "handler"), !.userIndex = userIndex]]
  /\ UNCHANGED << users, now, last >>

\* updateUser from the spread on, and res.send(user); an index past the end
\* of the array reads undefined and the assignment lengthens the array
WriteUpdate ==
  /\ \E i \in 1..Len(reqs) :
       /\ reqs[i].pc = "write"
       /\ reqs[i].method = "PATCH"
       /\ LET userIndex == reqs[i].userIndex
              uu == updatedUser(IF userIndex <= Len(users) THEN users[userIndex] ELSE EmptyObject,
                                reqs[i].data, now)
          IN  /\ users' = IF userIndex <= Len(users) THEN assignAt(users, userIndex, uu) ELSE push(users, uu)
              /\ reqs' = [reqs EXCEPT ![i] =
                   [@ EXCEPT !.pc = "done", !.t1 = now, !.sent = Append(@, Response(OK, uu, << >>))]]
  /\ UNCHANGED << now, last >>

\* deleteUser from the read of users[userIndex] on, and res.send(user); an
\* index past the end of the array reads undefined and splices nothing
WriteDelete ==
  /\ \E i \in 1..Len(reqs) :
       /\ reqs[i].pc = "write"
       /\ reqs[i].method = "DELETE"
       /\ LET userIndex == reqs[i].userIndex
          IN  /\ users' = IF userIndex <= Len(users) THEN splice(users, userIndex) ELSE users
              /\ reqs' = [reqs EXCEPT ![i] =
                   [@ EXCEPT !.pc = "done",
                             !.sent = Append(@, Response(OK, IF userIndex <= Len(users) THEN users[userIndex]
                                                             ELSE UndefinedId, << >>))]]
  /\ UNCHANGED << now, last >>

\* the handler of POST /user: createNewUser(req.body), res.status(201).send
CreateUser ==
  /\ \E i \in 1..Len(reqs) :
       /\ reqs[i].pc = "handler"
       /\ reqs[i].method = "POST"
       /\ \E uuid \in RouteUUIDs, t2 \in now..MaxClock :
            /\ t2 <= now + 1
            /\ LET r == createNewUser(users, reqs[i].data, uuid, now, t2)
               IN  /\ users' = r.users
                   /\ reqs' = [reqs EXCEPT ![i] =
                        [@ EXCEPT !.pc = "done", !.ran = Append(@, "handler"), !.uuid = uuid,
                                  !.t1 = now, !.t2 = t2,
                                  !.sent = Append(@, Response(CREATED, r.value, << >>))]]
            /\ now' = t2
  /\ UNCHANGED last

\* the handler of GET /users: res.send(users)
ListUsers ==
  /\ \E i \in 1..Len(reqs) :
       /\ reqs[i].pc = "handler"
       /\ reqs[i].method = "LIST"
       /\ reqs' = [reqs EXCEPT ![i] =
            [@ EXCEPT !.pc = "done", !.ran = Append(@, "handler"),
                      !.sent = Append(@, Response(OK, users, << >>))]]
  /\ UNCHANGED << users, now, last >>

\* an error handler that answers 404 for 'User not found'
ErrorHandlerNotFound ==
  /\ \E i \in 1..Len(reqs) :
       /\ reqs[i].pc = "thrown"
       /\ reqs' = [reqs EXCEPT ![i] =
            [@ EXCEPT !.pc = "done", !.ran = Append(@, "errorHandler"),
                      !.sent = Append(@, Response(404, "User not found", << >>))]]
  /\ UNCHANGED << users, now, last >>

\* the error handler of the app answers for the Error a handler threw; of
\* its answer the status 500 is known
ErrorHandler ==
  /\ \E i \in 1..Len(reqs) :
       /\ reqs[i].pc = "thrown"
       /\ reqs' = [reqs EXCEPT ![i] =
            [@ EXCEPT !.pc = "done", !.ran = Append(@, "errorHandler"),
                      !.sent = Append(@, Response(INTERNAL_SERVER_ERROR, "User not found", << >>))]]
  /\ UNCHANGED << users, now, last >>

NextRoutes ==
  \/ Tick
  \/ Dispatch
  \/ ValidateParams
  \/ ValidateBody
  \/ Lookup
  \/ WriteUpdate
  \/ WriteDelete
  \/ CreateUser
  \/ ListUsers
  \/ ErrorHandler

SpecRoutes == InitRoutes /\ [][NextRoutes]_vars

\* ---------------------------------------------------------------- properties
EditableFields == {"firstName", "lastName", "email", "phone"}

\* the step is a call or request of kind op that succeeded
Succeeds(op) == last'.n = last.n + 1 /\ last'.op = op /\ last'.kind = "ok"

\* the latest call or request was op and it succeeded
Succeeded(op) == last.op = op /\ last.kind = "ok"

\* C1: no two records of the store have the same id
UniqueIds ==
  \A i, j \in 1..Len(users) : i # j => users[i].id # users[j].id

\* C2: a successful update leaves the id and the createdAt of the matched
\* record as they were, whatever the partial carries
UpdateKeepsIdAndCreatedAt ==
  [][Succeeds("Update") =>
       LET i == findIndex(users, last'.id)
       IN  /\ users'[i].id = users[i].id
           /\ users'[i].createdAt = users[i].createdAt]_vars

\* C3: every stored record has createdAt <= updatedAt
CreatedNotAfterUpdated ==
  \A i \in 1..Len(users) : users[i].createdAt <= users[i].updatedAt

\* C4: every stored record has all seven fields
AllSevenFields ==
  \A i \in 1..Len(users) : UserFields \subseteq DOMAIN users[i]

\* C5: after a successful update each of firstName, lastName, email, phone of
\* the stored and of the returned record is the partial's value when the
\* partial has the field, and the previously stored one when it has not
UpdateMergesFields ==
  [][Succeeds("Update") =>
       LET i == findIndex(users, last'.id)
           p == last'.arg
       IN  \A f \in EditableFields :
             /\ f \in DOMAIN users'[i] <=> f \in DOMAIN last'.value
             /\ f \in DOMAIN p =>
                  /\ f \in DOMAIN users'[i]
                  /\ users'[i][f] = p[f]
                  /\ last'.value[f] = p[f]
             /\ f \notin DOMAIN p =>
                  /\ f \in DOMAIN users'[i] <=> f \in DOMAIN users[i]
                  /\ f \in DOMAIN users[i] =>
                       /\ users'[i][f] = users[i][f]
                       /\ last'.value[f] = users[i][f]]_vars

UpdateMergesFieldsWitness ==
  /\ Succeeded("Update")
  /\ \E f, g \in EditableFields : f \in DOMAIN last.arg /\ g \notin DOMAIN last.arg
  /\ \E i \in 1..Len(users) : users[i] = last.value /\ users[i].firstName = "Johnny"

\* C6: a successful update stamps the stored and the returned record with the
\* current time, also for an empty partial and for one that carries updatedAt
UpdateStampsNow ==
  [][Succeeds("Update") =>
       LET i == findIndex(users, last'.id)
       IN  /\ users'[i].updatedAt = now
           /\ last'.value.updatedAt = now]_vars

UpdateStampsNowWitness ==
  /\ Succeeded("Update")
  /\ "updatedAt" \in DOMAIN last.arg
  /\ last.arg.updatedAt # last.value.updatedAt
  /\ last.value.updatedAt = now

\* C7: a successful update replaces the record where it was: same length,
\* every other position unchanged, the returned record at the matched position
UpdateInPlace ==
  [][Succeeds("Update") =>
       LET i == findIndex(users, last'.id)
       IN  /\ Len(users') = Len(users)
           /\ users'[i] = last'.value
           /\ \A j \in 1..Len(users) : j # i => users'[j] = users[j]]_vars

UpdateInPlaceWitness ==
  /\ Succeeded("Update")
  /\ Len(users) >= 3
  /\ users[2] = last.value
  /\ users[2] # SeedUsers[2]
  /\ users[1] = SeedUsers[1]
  /\ users[3] = SeedUsers[3]

\* C8: the record a create produces has createdAt equal to updatedAt
CreateStampsEqual ==
  Succeeded("Create") => last.value.createdAt = last.value.updatedAt

\* C9: a create puts exactly one record, the returned one, behind all the
\* records that were there, which stay as they were and where they were
CreateAppends ==
  [][Succeeds("Create") =>
       /\ Len(users') = Len(users) + 1
       /\ users'[Len(users')] = last'.value
       /\ \A j \in 1..Len(users) : users'[j] = users[j]]_vars

CreateAppendsWitness ==
  /\ Succeeded("Create")
  /\ Len(users) = Len(SeedUsers) + 1
  /\ users[Len(users)] = last.value
  /\ SubSeq(users, 1, Len(SeedUsers)) = SeedUsers

\* C10: a successful delete returns the matched record and removes it only:
\* the length drops by one, the others keep their values and relative order
DeleteRemovesOne ==
  [][Succeeds("Delete") =>
       LET i == findIndex(users, last'.id)
       IN  /\ Len(users') = Len(users) - 1
           /\ last'.value = users[i]
           /\ \A j \in 1..(i - 1) : users'[j] = users[j]
           /\ \A j \in (i + 1)..Len(users) : users'[j - 1] = users[j]]_vars

DeleteRemovesOneWitness ==
  /\ Succeeded("Delete")
  /\ last.value = SeedUsers[2]
  /\ Len(users) = Len(SeedUsers) - 1
  /\ users[1] = SeedUsers[1]
  /\ users[2] = SeedUsers[3]

\* the step is a direct call of a controller in ops
Calls(ops) == last'.n = last.n + 1 /\ last'.op \in ops /\ last'.via = "call"

\* some stored record has the id
Stored(us, id) == \E i \in 1..Len(us) : us[i].id = id

\* C11: after a successful delete a read of the same id fails with NotFound
DeleteThenReadNotFound ==
  Succeeded("Delete") => getUserById(users, last.id).kind = "NotFound"

\* C12: a read, update or delete of an id that no stored record has fails
\* with NotFound and the message 'User not found', whatever the id is
AbsentIdNotFound ==
  [][(Calls({"Read", "Update", "Delete"}) /\ ~Stored(users, last'.id)) =>
       /\ last'.kind = "NotFound"
       /\ last'.value = "User not found"]_vars

AbsentIdNotFoundWitness ==
  /\ last.op \in {"Update", "Delete"}
  /\ last.id \in {"", NullId, UndefinedId}
  /\ last.kind = "NotFound"
  /\ users = << >>

\* C13: a read, update or delete that fails with NotFound leaves the store
\* exactly as it was
NotFoundKeepsStore ==
  [][(Calls({"Read", "Update", "Delete"}) /\ last'.kind = "NotFound") =>
       users' = users]_vars

NotFoundKeepsStoreWitness ==
  /\ last.op = "Delete"
  /\ last.kind = "NotFound"
  /\ last.n >= 2
  /\ Len(users) > Len(SeedUsers)

\* C14: a read returns a stored record whose id is exactly the id asked for,
\* the first such record, at whatever position; an id that differs from a
\* stored one in letter case only is not found
ReadExactId ==
  last.op = "Read" =>
    IF Stored(users, last.id)
      THEN /\ last.kind = "ok"
           /\ last.value.id = last.id
           /\ \E i \in 1..Len(users) :
                /\ users[i] = last.value
                /\ \A j \in 1..(i - 1) : users[j].id # last.id
      ELSE last.kind = "NotFound"

ReadExactIdWitness ==
  /\ last.op = "Read"
  /\ last.id = UpperSeedId
  /\ last.kind = "NotFound"
  /\ Len(users) >= 2
  /\ users[2].id = SeedId(2)

\* C15: a read of the id a create returned gives the record the create returned
CreateThenRead ==
  Succeeded("Create") =>
    /\ getUserById(users, last.value.id).kind = "ok"
    /\ getUserById(users, last.value.id).value = last.value

\* C16: a list returns the whole array in its order and leaves the store as
\* it was, a list straight after a list returns the same sequence, and a read
\* leaves the store as it was
ListAndReadKeepStore ==
  [][/\ (last'.n = last.n + 1 /\ last'.op = "List") =>
          /\ last'.value = users
          /\ users' = users
          /\ (last.op = "List" => last'.value = last.value)
     /\ (last'.n = last.n + 1 /\ last'.op = "Read") => users' = users]_vars

ListAndReadKeepStoreWitness ==
  /\ Succeeded("List")
  /\ last.n >= 2
  /\ last.value = users
  /\ Len(users) > Len(SeedUsers)
  /\ users[2] # SeedUsers[2]

\* the step is a write of the caller to the record the last operation gave it
Writes == last'.n = last.n + 1 /\ last'.op = "Write"

\* C17 as stated: a change made to a returned value never changes the store
CallerWriteKeepsStore ==
  [][Writes => users' = users]_vars

\* C17 amended: getUserById, createNewUser and updateUser return the stored
\* object itself, so a change a direct caller makes to the returned record is
\* a change of the stored record; deleteUser returns the removed object and
\* HTTP clients receive serialized copies, whose changes leave the store as
\* it was
CallerWriteReachesStore ==
  [][/\ (Calls({"Create", "Read", "Update"}) /\ last'.kind = "ok") =>
          /\ last'.ref \in 1..Len(users')
          /\ users'[last'.ref] = last'.value
     /\ (last'.n = last.n + 1 /\ (last'.via = "http" \/ last'.op = "Delete")) =>
          last'.ref = 0
     /\ (Writes /\ last.ref # 0) =>
          /\ Len(users') = Len(users)
          /\ users'[last.ref] = last'.value
          /\ users'[last.ref].firstName = "Changed"
          /\ \A i \in 1..Len(users) : i # last.ref => users'[i] = users[i]
     /\ (Writes /\ last.ref = 0) => users' = users]_vars

CallerWriteReachesStoreWitness ==
  /\ last.op = "Write"
  /\ last.via = "call"
  /\ last.ref # 0
  /\ last.id = SeedId(2)
  /\ users[2].firstName = "Changed"

\* C18: when validation of a request fails the validator answers 400 with
\* message 'Validation error' and the details, next() is not called, no
\* controller runs and the store is left as it was
InvalidRequestStopsAtValidator ==
  [][(last'.n = last.n + 1 /\ last'.via = "http" /\
      validate(userCreateSchema, last'.arg).error # << >> /\ last'.op = "Create") =>
       /\ last'.status = BAD_REQUEST
       /\ last'.kind = "ValidationError"
       /\ last'.value = "Validation error"
       /\ last'.details = validate(userCreateSchema, last'.arg).error
       /\ last'.next = 0
       /\ users' = users]_vars

InvalidRequestStopsAtValidatorWitness ==
  /\ last.op = "Create"
  /\ last.via = "http"
  /\ last.status = BAD_REQUEST
  /\ Len(last.details) = 2
  /\ last.n >= 2
  /\ users # SeedUsers

\* the validation of an object has been carried out
Validated == last.op = "Validate" /\ last.kind # "pending" /\ last.arg.type = "object"

\* the value of a key breaks the declaration of the key
Violates(d, raw) ==
  IF d.key \in DOMAIN raw
    THEN \/ raw[d.key] = ""
         \/ d.rule = "email" /\ ~emailSchema(raw[d.key])
         \/ d.rule = "phone" /\ ~phoneSchema(raw[d.key])
         \/ d.rule = "uuid" /\ ~idSchema(raw[d.key])
         \/ d.rule = "number" /\ raw[d.key] \notin DOMAIN NumberOf
         \/ d.rule = "number" /\ raw[d.key] \in DOMAIN NumberOf /\ NumberOf[raw[d.key]] < d.min
         \/ d.rule = "number" /\ raw[d.key] \in DOMAIN NumberOf /\ "max" \in DOMAIN d
              /\ NumberOf[raw[d.key]] > d.max
    ELSE d.required

\* the places of the details whose path is the key
EntriesFor(details, key) == {j \in 1..Len(details) : details[j].path = key}

Place(schema, key) == CHOOSE i \in 1..Len(schema) : schema[i].key = key

\* the orders in which the properties of an object can have been inserted
Reorderings(entries) ==
  { [j \in 1..Len(entries) |-> entries[p[j]]] :
      p \in { q \in [1..Len(entries) -> 1..Len(entries)] :
                \A a, b \in 1..Len(entries) : q[a] = q[b] => a = b } }

UnknownFieldsDropped ==
  (last.op = "Create" /\ last.via = "http") =>
    /\ last.details = validate(userCreateSchema, stripUnknown(userCreateSchema, last.arg)).error
    /\ \A j \in 1..Len(last.details) : last.details[j].path \in EditableFields
    /\ last.kind = "ok" =>
         /\ DOMAIN last.value \subseteq UserFields
         /\ users[Len(users)] = last.value
         /\ \A k \in (DOMAIN last.value) \ {"id", "createdAt", "updatedAt"} :
              k \in DOMAIN last.arg /\ last.value[k] = last.arg[k]

UnknownFieldsDroppedWitness ==
  /\ last.op = "Create"
  /\ last.via = "http"
  /\ last.kind = "ok"
  /\ "unknownProp" \in DOMAIN last.arg
  /\ "unknownProp" \notin DOMAIN last.value
  /\ last.value.id # last.arg.id

\* C22: an input that is null or undefined is validated as the empty object
\* is: it passes when {} passes and fails with the violations of {} when {}
\* fails
AbsentInputAsEmpty ==
  (last.op = "Validate" /\ last.kind # "pending" /\ last.arg.type \in {"null", "undefined"}) =>
    /\ last.kind = validateRequest(last.arg.schema, << >>).kind
    /\ last.details = validateRequest(last.arg.schema, << >>).details

RecordsStayReadable ==
  [][\A i \in 1..Len(users) :
       \/ Stored(users', users[i].id)
       \/ /\ last'.n = last.n + 1
          /\ last'.op = "Delete"
          /\ last'.kind = "ok"
          /\ last'.id = users[i].id]_vars

\* C28: the record a create stores and returns has the generated id and the
\* timestamps read from the clock, also when the object passed in has id,
\* createdAt and updatedAt of its own
CreateIgnoresCallerStamps ==
  (Succeeded("Create") /\ last.via = "call") =>
    /\ last.value.id \in UUIDs
    /\ last.value.createdAt \in StartClock..now
    /\ last.value.updatedAt \in last.value.createdAt..now
    /\ \A k \in {"id", "createdAt", "updatedAt"} \cap DOMAIN last.arg :
         last.value[k] # last.arg[k]
    /\ \A k \in (DOMAIN last.arg) \ {"id", "createdAt", "updatedAt"} :
         last.value[k] = last.arg[k]
    /\ users[last.ref] = last.value

CreateIgnoresCallerStampsWitness ==
  /\ Succeeded("Create")
  /\ last.via = "call"
  /\ {"id", "createdAt", "updatedAt"} \subseteq DOMAIN last.arg
  /\ last.arg.id = SeedId(2)
  /\ last.value.id = MockUUID
  /\ users[Len(users)].createdAt = now

\* every request has been answered
AllDone == reqs # << >> /\ \A i \in 1..Len(reqs) : reqs[i].pc = "done"

\* C24: PATCH /user/:id with the id of a stored record and the body {} passes
\* both validators, is answered 200 with the record, and changes nothing of
\* the stored record but updatedAt
EmptyPatchTouchesUpdatedAt ==
  [][\A i \in 1..Len(reqs) :
       (reqs[i].method = "PATCH" /\ reqs[i].body = JsonBody(<< >>) /\ idSchema(reqs[i].id)) =>
         /\ reqs'[i].pc = "done" =>
              /\ Len(reqs'[i].sent) = 1
              /\ reqs'[i].sent[1].status = IF reqs'[i].userIndex > 0 THEN OK ELSE INTERNAL_SERVER_ERROR
         /\ (reqs[i].pc = "write" /\ reqs'[i].pc = "done") =>
              LET k == reqs[i].userIndex
              IN  /\ users[k].id = reqs[i].id
                  /\ users' = [users EXCEPT ![k] = [@ EXCEPT !.updatedAt = now]]
                  /\ reqs'[i].sent = << Response(OK, users'[k], << >>) >>
                  /\ reqs'[i].ran = << "params", "body", "handler" >>
                  /\ reqs'[i].next = 2]_vars

EmptyPatchTouchesUpdatedAtWitness ==
  /\ \E i \in 1..Len(reqs) :
       /\ reqs[i].method = "PATCH"
       /\ reqs[i].body = JsonBody(<< >>)
       /\ reqs[i].pc = "done"
       /\ reqs[i].sent[1].status = OK
       /\ users[2].updatedAt = now
       /\ users[2].firstName = SeedUsers[2].firstName
  /\ now > StartClock

\* the atomic handling of a request on a store: the answer and the store left
Serve(us, r) ==
  LET p == middleware(userIdSchema, JsonBody(<< [key |-> "id", value |-> r.id] >>))
      b == middleware(IF r.method = "POST" THEN userCreateSchema ELSE userUpdateSchema, r.body)
      o == IF r.method = "GET" THEN getUserById(us, r.id)
           ELSE IF r.method = "PATCH" THEN updateUser(us, r.id, b.value, r.t1)
           ELSE IF r.method = "DELETE" THEN deleteUser(us, r.id)
           ELSE createNewUser(us, b.value, r.uuid, r.t1, r.t2)
  IN  IF r.method = "LIST"
        THEN [users |-> us, sent |-> Response(OK, us, << >>)]
      ELSE IF r.method # "POST" /\ p.kind # "ok"
        THEN [users |-> us, sent |-> Response(p.status, p.value, p.details)]
      ELSE IF r.method \in {"POST", "PATCH"} /\ b.kind # "ok"
        THEN [users |-> us, sent |-> Response(b.status, b.value, b.details)]
      ELSE IF o.kind = "NotFound"
        THEN [users |-> us, sent |-> Response(INTERNAL_SERVER_ERROR, o.value, << >>)]
      ELSE [users |-> o.users,
            sent |-> Response(IF r.method = "POST" THEN CREATED ELSE OK, o.value, << >>)]

\* the orders of n requests
Orders(n) == { q \in [1..n -> 1..n] : \A a, b \in 1..n : q[a] = q[b] => a = b }

RECURSIVE Replayed(_, _, _)
\* serving the requests one after another in the order, from the store us,
\* gives the answers the requests got and ends in the store as it is
Replayed(us, order, k) ==
  IF k > Len(order) THEN us = users
  ELSE LET o == Serve(us, reqs[order[k]])
       IN  /\ Len(reqs[order[k]].sent) = 1
           /\ reqs[order[k]].sent[1].status = o.sent.status
           /\ reqs[order[k]].sent[1].details = o.sent.details
           /\ reqs[order[k]].sent[1].value = o.sent.value
           /\ Replayed(o.users, order, k + 1)

\* C25: at most one request is between the start of its chain and its
\* response at any time, and when all requests are answered the answers and
\* the store are those of serving the requests one after another in some
\* order
RequestsSerialized ==
  /\ Cardinality({i \in 1..Len(reqs) : reqs[i].pc \notin {"received", "done"}}) <= 1
  /\ AllDone => \E order \in Orders(Len(reqs)) : Replayed(SeedUsers, order, 1)

RequestsSerializedWitness ==
  /\ AllDone
  /\ Len(reqs) >= 3
  /\ reqs[1].method = "PATCH" /\ reqs[1].sent[1].status = INTERNAL_SERVER_ERROR /\ reqs[1].id = SeedId(2)
  /\ reqs[2].method = "DELETE" /\ reqs[2].sent[1].status = OK
  /\ reqs[3].method = "POST" /\ reqs[3].sent[1].status = CREATED
  /\ Len(users) = Len(SeedUsers)

\* C26: GET, PATCH and DELETE /user/:id whose id is a valid UUID that no
\* stored record has are answered 500, and only those
MissingUserIs500 ==
  \A i \in 1..Len(reqs) :
    (reqs[i].pc = "done" /\ reqs[i].method \in {"GET", "PATCH", "DELETE"}) =>
      /\ Len(reqs[i].sent) = 1
      /\ reqs[i].userIndex = -1 =>
           /\ idSchema(reqs[i].id)
           /\ reqs[i].sent[1].status = INTERNAL_SERVER_ERROR
           /\ reqs[i].ran[Len(reqs[i].ran)] = "errorHandler"
      /\ reqs[i].sent[1].status = INTERNAL_SERVER_ERROR => reqs[i].userIndex = -1

MissingUserIs500Witness ==
  /\ AllDone
  /\ Len(reqs) = 3
  /\ {reqs[i].method : i \in 1..3} = {"GET", "PATCH", "DELETE"}
  /\ \A i \in 1..3 : reqs[i].id = OtherUUID /\ reqs[i].sent[1].status = INTERNAL_SERVER_ERROR
  /\ users = SeedUsers

\* the sequences a sequence begins with
Prefixes(seq) == { SubSeq(seq, 1, k) : k \in 0..Len(seq) }

\* C29: for PATCH /user/:id the params validator runs first, the body
\* validator second and updateUser after both called next(); with invalid
\* params the body validator and updateUser do not run and the one response
\* is a 400 whose details are about id only
PatchParamsFirst ==
  \A i \in 1..Len(reqs) :
    reqs[i].method = "PATCH" =>
      /\ reqs[i].ran \in Prefixes(<< "params", "body", "handler", "errorHandler" >>)
      /\ Len(reqs[i].sent) <= 1
      /\ reqs[i].userIndex # 0 => reqs[i].next = 2
      /\ (~idSchema(reqs[i].id) /\ reqs[i].pc # "received") =>
           /\ reqs[i].ran \in {<< >>, << "params" >>}
           /\ reqs[i].next = 0
           /\ reqs[i].userIndex = 0
           /\ reqs[i].pc = "done" =>
                /\ Len(reqs[i].sent) = 1
                /\ reqs[i].sent[1].status = BAD_REQUEST
                /\ reqs[i].sent[1].details # << >>
                /\ \A j \in 1..Len(reqs[i].sent[1].details) : reqs[i].sent[1].details[j].path = "id"

PatchParamsFirstWitness ==
  \E i \in 1..Len(reqs) :
    /\ reqs[i].method = "PATCH"
    /\ reqs[i].id = "invalid-uuid"
    /\ validate(userUpdateSchema, fromEntries(reqs[i].body.entries)).error # << >>
    /\ reqs[i].pc = "done"
    /\ reqs[i].sent[1].details = << [path |-> "id", message |-> "id must be a valid GUID"] >>

\* C30: of two DELETE requests in flight together for the id of a stored
\* record, one is answered with the record, the other fails with NotFound,
\* and the store loses one record
TwoDeletesOneWins ==
  AllDone =>
    \A i, j \in 1..Len(reqs) :
      (/\ i < j
       /\ reqs[i].method = "DELETE" /\ reqs[j].method = "DELETE"
       /\ reqs[i].id = reqs[j].id
       /\ Stored(SeedUsers, reqs[i].id)
       /\ \A k \in 1..Len(reqs) : reqs[k].method = "DELETE" => k \in {i, j}) =>
        /\ {reqs[i].sent[1].status, reqs[j].sent[1].status} = {OK, INTERNAL_SERVER_ERROR}
        /\ Len(users) = Len(SeedUsers) - 1
                          + Cardinality({k \in 1..Len(reqs) : reqs[k].method = "POST"})

====
